---- MODULE Spec2Model ----
(***************************************************************************)
(* Model of crewai-serpapi-multisearch.py: serpapi_multisearch queries     *)
(* four search engines through the SerpAPI provider, one at a time with a  *)
(* fixed pause after each call, normalizes the hits, pads or truncates the *)
(* combined list to a fixed length, derives the cited sources and appends  *)
(* a markdown report to <output_dir>/search_results.md.                    *)
(*                                                                         *)
(* Python values are modelled as follows.  A dict is a TLA+ function whose *)
(* DOMAIN is the set of its keys; a list is a sequence; a str is a string  *)
(* (TLC concatenates strings with \o); None is the reserved string PyNone, *)
(* which no provider text equals.  The outcome of a call that may raise is *)
(* a record [raised, value].  The report file is the string of characters  *)
(* it contains.  File system operations are assumed to succeed, and one    *)
(* output directory (OUTPUT_DIR, the default) is modelled.                 *)
(***************************************************************************)
EXTENDS Integers, Sequences, FiniteSets, TLC

\* ------------------------------------------------------------------ bounds

\* Invocations of the entry points in one behaviour.
MaxCalls == 2
\* How many hits beyond the number asked for a provider may return.
MaxExtra == 1

\* ------------------------------------------------------- program constants

GOOGLE_SEARCH_ENGINE == "google"
BING_SEARCH_ENGINE == "bing"
DUCKDUCKGO_SEARCH_ENGINE == "duckduckgo"
YAHOO_SEARCH_ENGINE == "yahoo"

GOOGLE_RESULTS_NUM == 10
BING_RESULTS_NUM == 10
DUCKDUCKGO_RESULTS_NUM == 10
YAHOO_RESULTS_NUM == 10

OUTPUT_DIR == "./output"

RATE_LIMIT == 10

\* The value the module stores in os.environ["SERPER_API_KEY"] when imported.
IMPORT_API_KEY == "your_serper_api_key_here"

\* ----------------------------------------------------------- Python values

PyNone == "<None>"

EmptyDict == [k \in {} |-> PyNone]

\* dict.get(key, default)
DictGet(d, key, default) == IF key \in DOMAIN d THEN d[key] ELSE default

\* str(v), as an f-string formats a value
Str(v) == IF v = PyNone THEN "None" ELSE v

\* list[:n] for n >= 0
Slice(list, n) == SubSeq(list, 1, IF n < Len(list) THEN n ELSE Len(list))

\* [item] * n
Repeat(item, n) == [i \in 1..n |-> item]

\* ------------------------------------------------------------------- state

VARIABLES
    environ,            \* os.environ restricted to SERPER_API_KEY: a dict
    output_dir_exists,  \* whether OUTPUT_DIR exists
    file_exists,        \* whether OUTPUT_DIR/search_results.md exists
    file,               \* its content ("" while it does not exist)
    pc,                 \* "idle", or the position inside serpapi_multisearch
    calls,              \* invocations started so far
    query,              \* argument of the running invocation
    save_to_file,       \* argument of the running invocation
    api_key,            \* local of the running invocation
    engine_index,       \* position of the for loop over search_engines
    all_results,        \* local of the running invocation
    events,             \* provider calls and pauses of the latest invocation
    responses,          \* what the provider answered in the latest invocation
    outcome,            \* how the latest invocation ended: "none", "returned", "raised"
    result,             \* what the latest invocation returned (EmptyDict before)
    at_call,            \* the environment and file system when the latest invocation started
    saved               \* the search_results of every report written, in order

vars == <<environ, output_dir_exists, file_exists, file, pc, calls, query,
          save_to_file, api_key, engine_index, all_results, events, responses,
          outcome, result, at_call, saved>>

\* ---------------------------------------------------------------- inputs

Queries == {"", "rust vs go performance"}

\* What the host process may have done to SERPER_API_KEY before a call:
\* deleted it, emptied it, or set a key.
Environments ==
    {EmptyDict, [SERPER_API_KEY |-> ""], [SERPER_API_KEY |-> IMPORT_API_KEY]}

\* One raw organic result of the provider.  Hits differ in the fields they
\* carry: every third one has all fields (and one the tool ignores), the next
\* has neither date nor author, the next has only a link and a date.
RawHit(engine, i) ==
    CASE i % 3 = 1 ->
           [title |-> engine \o " title " \o ToString(i),
            link |-> "https://" \o engine \o ".example/" \o ToString(i),
            date |-> "2024-05-" \o ToString(10 + i),
            author |-> engine \o " author " \o ToString(i),
            snippet |-> engine \o " snippet " \o ToString(i),
            position |-> ToString(i)]
      [] i % 3 = 2 ->
           [title |-> engine \o " title " \o ToString(i),
            link |-> "https://" \o engine \o ".example/" \o ToString(i),
            snippet |-> engine \o " snippet " \o ToString(i)]
      [] OTHER ->
           [link |-> "https://" \o engine \o ".example/" \o ToString(i),
            date |-> "2024-05-" \o ToString(10 + i)]

RawHits(engine, n) == [i \in 1..n |-> RawHit(engine, i)]

\* How many organic results a provider may return when asked for num: none,
\* or more than it was asked for.
HitCounts(num) == {0, num + MaxExtra}

\* The outcomes of GoogleSearch(params).get_dict(): it raises (network
\* error, provider error), or it returns a dict with a list of organic
\* results.
ProviderOutcomes(params) ==
    {[raised |-> TRUE, value |-> EmptyDict]}
    \cup {[raised |-> FALSE,
           value |-> [organic_results |-> RawHits(params.engine, n)]]
          : n \in HitCounts(params.num)}

\* -------------------------------------------------------------- operations

\* The dict comprehension of serpapi_search, for one raw result.
StructuredResult(raw) ==
    [title |-> DictGet(raw, "title", PyNone),
     link |-> DictGet(raw, "link", PyNone),
     date |-> DictGet(raw, "date", PyNone),
     author |-> DictGet(raw, "author", PyNone),
     snippet |-> DictGet(raw, "snippet", PyNone)]

\* serpapi_search without its except clause: the exception leaves it.
serpapi_search_no_except(provided) ==
    IF provided.raised
    THEN [raised |-> TRUE, value |-> <<>>]
    ELSE LET results == DictGet(provided.value, "organic_results", <<>>)
         IN [raised |-> FALSE,
             value |-> [i \in 1..Len(results) |-> StructuredResult(results[i])]]

\* serpapi_search(params), given the outcome of the provider call it makes:
\* the except clause turns a raised exception into an empty list.
serpapi_search(provided) ==
    IF provided.raised
    THEN [raised |-> FALSE, value |-> <<>>]
    ELSE LET results == DictGet(provided.value, "organic_results", <<>>)
         IN [raised |-> FALSE,
             value |-> [i \in 1..Len(results) |-> StructuredResult(results[i])]]

\* The engines in another order.
SearchEnginesYahooFirst(q, key) ==
    <<[params |-> [engine |-> YAHOO_SEARCH_ENGINE, p |-> q, api_key |-> key,
                   num |-> YAHOO_RESULTS_NUM]],
      [params |-> [engine |-> GOOGLE_SEARCH_ENGINE, q |-> q, api_key |-> key,
                   num |-> GOOGLE_RESULTS_NUM]],
      [params |-> [engine |-> BING_SEARCH_ENGINE, q |-> q, api_key |-> key,
                   num |-> BING_RESULTS_NUM]],
      [params |-> [engine |-> DUCKDUCKGO_SEARCH_ENGINE, q |-> q, kl |-> "us-en",
                   api_key |-> key, num |-> DUCKDUCKGO_RESULTS_NUM]]>>

\* The search_engines list of serpapi_multisearch.
SearchEngines(q, key) ==
    <<[params |-> [engine |-> GOOGLE_SEARCH_ENGINE, q |-> q, api_key |-> key,
                   num |-> GOOGLE_RESULTS_NUM]],
      [params |-> [engine |-> BING_SEARCH_ENGINE, q |-> q, api_key |-> key,
                   num |-> BING_RESULTS_NUM]],
      [params |-> [engine |-> DUCKDUCKGO_SEARCH_ENGINE, q |-> q, kl |-> "us-en",
                   api_key |-> key, num |-> DUCKDUCKGO_RESULTS_NUM]],
      [params |-> [engine |-> YAHOO_SEARCH_ENGINE, p |-> q, api_key |-> key,
                   num |-> YAHOO_RESULTS_NUM]]>>

\* The length every search_results list is brought to.
TotalResultsNum ==
    GOOGLE_RESULTS_NUM + BING_RESULTS_NUM + DUCKDUCKGO_RESULTS_NUM + YAHOO_RESULTS_NUM

Placeholder == [title |-> "No additional results", link |-> "", snippet |-> ""]

\* No padding at all.
PadNothing(results) == results

\* Placeholders put before the results.
PadFront(results) ==
    IF Len(results) < TotalResultsNum
    THEN Repeat(Placeholder, TotalResultsNum - Len(results)) \o results
    ELSE results

\* The padding of all_results.
Pad(results) ==
    IF Len(results) < TotalResultsNum
    THEN results \o Repeat(Placeholder, TotalResultsNum - Len(results))
    ELSE results

\* The combined_results dict with the cited sources taken from the whole
\* padded list instead of its slice.
CombinedResultsCiteAll(results) ==
    [search_results |-> Slice(Pad(results), TotalResultsNum),
     cited_sources |->
        [i \in 1..Len(Pad(results)) |->
            [title |-> Pad(results)[i].title, url |-> Pad(results)[i].link]]]

CitedSources(results) ==
    [i \in 1..Len(results) |-> [title |-> results[i].title, url |-> results[i].link]]

\* The combined_results dict, from all_results as the loop left it.
CombinedResults(results) ==
    [search_results |-> Slice(Pad(results), TotalResultsNum),
     cited_sources |-> CitedSources(Slice(Pad(results), TotalResultsNum))]

\* The five writes of save_results_to_markdown for one result.
ReportBlock(r) ==
    "### " \o Str(r.title) \o "\n"
    \o "[Link](" \o Str(r.link) \o ")\n"
    \o Str(r.snippet) \o "\n"
    \o "**Date:** " \o Str(DictGet(r, "date", "N/A")) \o "\n"
    \o "**Author:** " \o Str(DictGet(r, "author", "N/A")) \o "\n\n"

RECURSIVE ReportBlocks(_)
ReportBlocks(results) ==
    IF results = <<>> THEN ""
    ELSE ReportBlock(Head(results)) \o ReportBlocks(Tail(results))

\* Everything one call of save_results_to_markdown writes.
ReportText(results) == ReportBlocks(results.search_results) \o "\n---\n"

\* The file opened with "w": what it held is lost.
TruncateAndWrite(content, text) == text

\* open(file_path, "a") followed by the writes: the new content of the file.
AppendToFile(content, text) == content \o text

\* save_results_to_markdown(results, OUTPUT_DIR): the directory is created
\* when it is missing and the report is appended to the file, which open
\* creates when it is missing.
save_results_to_markdown(fs, results) ==
    [dir |-> TRUE, exists |-> TRUE,
     content |-> AppendToFile(fs.content, ReportText(results))]

\* The report is written whatever save_to_file says.
FileSystemAfterAlways(fs, results, save) == save_results_to_markdown(fs, results)

\* The file system after the "if save_to_file" statement.
FileSystemAfter(fs, results, save) ==
    IF save THEN save_results_to_markdown(fs, results) ELSE fs

\* The query is not checked.
ValidationErrorKeyOnly(q, env) ==
    IF DictGet(env, "SERPER_API_KEY", "") = ""
    THEN [error |-> "API key is required"]
    ELSE EmptyDict

\* The key is only checked for being set.
ValidationErrorKeySet(q, env) ==
    IF q = "" THEN [error |-> "Query parameter is required"]
    ELSE IF "SERPER_API_KEY" \notin DOMAIN env
         THEN [error |-> "API key is required"]
         ELSE EmptyDict

\* The early returns of serpapi_multisearch: the error dict, or EmptyDict when
\* the arguments and the environment pass.
ValidationError(q, env) ==
    IF q = "" THEN [error |-> "Query parameter is required"]
    ELSE IF DictGet(env, "SERPER_API_KEY", "") = ""
         THEN [error |-> "API key is required"]
         ELSE EmptyDict

\* ------------------------------------------------------------------ actions

FileSystem == [dir |-> output_dir_exists, exists |-> file_exists, content |-> file]

Snapshot == [environ |-> environ, fs |-> FileSystem]

\* When the module is imported the key is in the environment and no
\* invocation has run; the output directory may or may not exist and the
\* report file does not.
Init ==
    /\ environ = [SERPER_API_KEY |-> IMPORT_API_KEY]
    /\ output_dir_exists \in BOOLEAN
    /\ file_exists = FALSE
    /\ file = ""
    /\ pc = "idle"
    /\ calls = 0
    /\ query = ""
    /\ save_to_file = FALSE
    /\ api_key = ""
    /\ engine_index = 0
    /\ all_results = <<>>
    /\ events = <<>>
    /\ responses = <<>>
    /\ outcome = "none"
    /\ result = EmptyDict
    /\ at_call = Snapshot
    /\ saved = <<>>

\* The host process changes SERPER_API_KEY between two invocations.
SetEnviron ==
    /\ pc = "idle"
    /\ calls < MaxCalls
    /\ \E env \in Environments : env # environ /\ environ' = env
    /\ UNCHANGED <<output_dir_exists, file_exists, file, pc, calls, query,
                   save_to_file, api_key, engine_index, all_results, events,
                   responses, outcome, result, at_call, saved>>

\* serpapi_multisearch(q, OUTPUT_DIR, save) up to its first provider call:
\* the two early returns, the read of the key and the list of engines.
Invoke(q, save) ==
    /\ pc = "idle"
    /\ calls < MaxCalls
    /\ calls' = calls + 1
    /\ query' = q
    /\ save_to_file' = save
    /\ events' = <<>>
    /\ responses' = <<>>
    /\ all_results' = <<>>
    /\ at_call' = Snapshot
    /\ IF ValidationError(q, environ) # EmptyDict
       THEN /\ result' = ValidationError(q, environ)
            /\ outcome' = "returned"
            /\ pc' = "idle"
            /\ api_key' = ""
            /\ engine_index' = 0
       ELSE /\ result' = EmptyDict
            /\ outcome' = "none"
            /\ pc' = "search"
            /\ api_key' = DictGet(environ, "SERPER_API_KEY", "")
            /\ engine_index' = 1
    /\ UNCHANGED <<environ, output_dir_exists, file_exists, file, saved>>

\* serpapi_multisearch as a caller invokes it.
Multisearch == \E q \in Queries, save \in BOOLEAN : Invoke(q, save)

\* SerpApiMultisearchTool.run(q): save_to_file keeps its default.
ToolRun == \E q \in Queries : Invoke(q, TRUE)

\* One pass of the loop up to the pause: the provider is called for the
\* engine at engine_index and what serpapi_search returns extends
\* all_results.  An exception leaving serpapi_search would end the invocation.
SearchStep ==
    /\ pc = "search"
    /\ LET params == SearchEngines(query, api_key)[engine_index].params
       IN \E provided \in ProviderOutcomes(params) :
            LET results == serpapi_search(provided)
            IN /\ events' = Append(events, [kind |-> "search", params |-> params])
               /\ responses' = Append(responses, provided)
               /\ IF results.raised
                  THEN /\ outcome' = "raised"
                       /\ pc' = "idle"
                       /\ all_results' = <<>>
                       /\ api_key' = ""
                       /\ engine_index' = 0
                  ELSE /\ outcome' = outcome
                       /\ pc' = "sleep"
                       /\ all_results' = all_results \o results.value
                       /\ UNCHANGED <<api_key, engine_index>>
    /\ UNCHANGED <<environ, output_dir_exists, file_exists, file, calls, query,
                   save_to_file, result, at_call, saved>>

\* sleep(RATE_LIMIT), then the loop moves to the next engine or ends.
SleepStep ==
    /\ pc = "sleep"
    /\ events' = Append(events, [kind |-> "sleep", seconds |-> RATE_LIMIT])
    /\ IF engine_index < Len(SearchEngines(query, api_key))
       THEN /\ engine_index' = engine_index + 1
            /\ pc' = "search"
       ELSE /\ engine_index' = engine_index
            /\ pc' = "combine"
    /\ UNCHANGED <<environ, output_dir_exists, file_exists, file, calls, query,
                   save_to_file, api_key, all_results, responses, outcome,
                   result, at_call, saved>>

\* The rest of serpapi_multisearch: padding, combined_results, the report
\* when save_to_file is set (save_results_to_markdown creates the directory
\* when it is missing and appends to the file), and the return.
Complete ==
    /\ pc = "combine"
    /\ LET combined_results == CombinedResults(all_results)
           after == FileSystemAfter(FileSystem, combined_results, save_to_file)
       IN /\ output_dir_exists' = after.dir
          /\ file_exists' = after.exists
          /\ file' = after.content
          /\ saved' = IF save_to_file
                      THEN Append(saved, combined_results.search_results)
                      ELSE saved
          /\ result' = combined_results
    /\ outcome' = "returned"
    /\ pc' = "idle"
    /\ all_results' = <<>>
    /\ api_key' = ""
    /\ engine_index' = 0
    /\ UNCHANGED <<environ, calls, query, save_to_file, events, responses,
                   at_call>>

Next ==
    \/ SetEnviron
    \/ Multisearch
    \/ ToolRun
    \/ SearchStep
    \/ SleepStep
    \/ Complete

Spec == Init /\ [][Next]_vars

\* ------------------------------------------------------------ claim helpers

\* The latest invocation has ended.
Ended == pc = "idle" /\ calls > 0

\* The latest invocation returned combined results.
ReturnedResults ==
    Ended /\ outcome = "returned" /\ "search_results" \in DOMAIN result

\* The latest invocation returned an error result.
ReturnedError == Ended /\ outcome = "returned" /\ DOMAIN result = {"error"}

\* A credential is present in an environment: set and not empty.
CredentialPresent(env) ==
    "SERPER_API_KEY" \in DOMAIN env /\ env["SERPER_API_KEY"] # ""

\* How many organic results a provider outcome carries.
HitsOf(provided) ==
    IF provided.raised \/ "organic_results" \notin DOMAIN provided.value
    THEN 0
    ELSE Len(provided.value["organic_results"])

\* How many hits an outcome asked to carry was asked for.
AskedOf(i) == events[2 * i - 1].params.num

RECURSIVE SumHits(_)
SumHits(outcomes) ==
    IF outcomes = <<>> THEN 0 ELSE HitsOf(Head(outcomes)) + SumHits(Tail(outcomes))

IsPrefix(a, b) == Len(a) <= Len(b) /\ SubSeq(b, 1, Len(a)) = a

\* -------------------------------------------------------------------- C1

\* C1: every invocation with a non-empty query and a credential present at
\* call time returns a search_results list of exactly
\* GOOGLE_RESULTS_NUM + BING_RESULTS_NUM + DUCKDUCKGO_RESULTS_NUM +
\* YAHOO_RESULTS_NUM entries, whatever the engines returned.
C1_FixedLength ==
    (Ended /\ query # "" /\ CredentialPresent(at_call.environ))
        => /\ ReturnedResults
           /\ Len(result.search_results)
                = GOOGLE_RESULTS_NUM + BING_RESULTS_NUM
                  + DUCKDUCKGO_RESULTS_NUM + YAHOO_RESULTS_NUM

\* One engine failed, one returned nothing, one returned more than asked.
C1_Witness ==
    /\ ReturnedResults
    /\ Len(responses) = 4
    /\ \E i \in 1..4 : responses[i].raised
    /\ \E i \in 1..4 : ~responses[i].raised /\ HitsOf(responses[i]) = 0
    /\ \E i \in 1..4 : HitsOf(responses[i]) > AskedOf(i)
    /\ Len(result.search_results) = 40

\* -------------------------------------------------------------------- C2

\* C2: when a provider call raises, no exception leaves the invocation, the
\* failed engine adds nothing to all_results, and the invocation goes on to
\* query the remaining engines and returns combined results.
C2_FailureIsolated ==
    (\E i \in 1..Len(responses) : responses[i].raised)
        => /\ outcome # "raised"
           /\ pc # "idle" => Len(all_results) = SumHits(responses)
           /\ pc = "idle"
                => /\ ReturnedResults
                   /\ Len(responses) = 4
                   /\ {events[2 * i - 1].params.engine : i \in 1..4}
                        = {"google", "bing", "duckduckgo", "yahoo"}

\* The second engine failed, the third was still queried and returned hits.
C2_Witness ==
    /\ ReturnedResults
    /\ Len(responses) = 4
    /\ responses[2].raised
    /\ HitsOf(responses[3]) > 0
    /\ result.search_results[1].title = "duckduckgo title 1"

\* -------------------------------------------------------------------- C3

\* C3: an invocation with an empty query returns an error result and makes
\* no provider call at any point.
C3_EmptyQuery ==
    (calls > 0 /\ query = "")
        => /\ ReturnedError
           /\ events = <<>>
           /\ responses = <<>>

\* An empty query after an invocation that did call the providers.
C3_Witness ==
    /\ ReturnedError
    /\ query = ""
    /\ calls = 2
    /\ saved # <<>>
    /\ CredentialPresent(at_call.environ)

\* -------------------------------------------------------------------- C4

\* C4: an invocation with a non-empty query while SERPER_API_KEY is unset or
\* empty returns an error result and makes no provider call at any point.
C4_MissingCredential ==
    (calls > 0 /\ query # "" /\ ~CredentialPresent(at_call.environ))
        => /\ ReturnedError
           /\ events = <<>>
           /\ responses = <<>>

\* The key was set to the empty string before the call.
C4_Witness ==
    /\ ReturnedError
    /\ query # ""
    /\ at_call.environ = [SERPER_API_KEY |-> ""]
    /\ result = [error |-> "API key is required"]

\* -------------------------------------------------------------------- C5

\* The block groups of a list of search_results lists, in order, each
\* followed by its separator line.
RECURSIVE BlockGroups(_)
BlockGroups(lists) ==
    IF lists = <<>> THEN ""
    ELSE ReportBlocks(Head(lists)) \o "\n---\n" \o BlockGroups(Tail(lists))

\* C5: the report file is only ever appended to: what it held when an
\* invocation started is a prefix of what it holds during and after it, and
\* after k saving invocations it holds exactly their k block groups, each
\* ended by its separator line, in the order of the invocations.
C5_AppendOnly ==
    /\ IsPrefix(at_call.fs.content, file)
    /\ file_exists <=> saved # <<>>
    /\ pc = "idle" => file = BlockGroups(saved)

\* Two saving invocations with different results left two groups.
C5_Witness ==
    /\ ReturnedResults
    /\ save_to_file
    /\ Len(saved) = 2
    /\ saved[1] # saved[2]
    /\ at_call.fs.content # ""
    /\ file # at_call.fs.content

\* -------------------------------------------------------------------- C6

\* The field of an entry as the report is said to show it.
ShownOrNA(r, key) ==
    IF key \in DOMAIN r /\ r[key] # PyNone THEN r[key] ELSE "N/A"

ClaimedBlock(r) ==
    "### " \o Str(r.title) \o "\n"
    \o "[Link](" \o Str(r.link) \o ")\n"
    \o Str(r.snippet) \o "\n"
    \o "**Date:** " \o ShownOrNA(r, "date") \o "\n"
    \o "**Author:** " \o ShownOrNA(r, "author") \o "\n\n"

RECURSIVE ClaimedBlocks(_)
ClaimedBlocks(results) ==
    IF results = <<>> THEN ""
    ELSE ClaimedBlock(Head(results)) \o ClaimedBlocks(Tail(results))

\* C6: in the block written for each entry the Date line shows the entry's
\* date when it has one and "N/A" otherwise, and the Author line shows the
\* author when it has one and "N/A" otherwise, for provider hits and for
\* placeholders alike.
C6_DateAuthorOrNA ==
    (ReturnedResults /\ save_to_file)
        => file = at_call.fs.content
                    \o ClaimedBlocks(result.search_results) \o "\n---\n"

\* -------------------------------------------------------------------- C7

\* C7: cited_sources is as long as search_results, and its i-th entry has the
\* link of the i-th result as url and its title as title.
C7_CitedSources ==
    ReturnedResults
        => /\ Len(result.cited_sources) = Len(result.search_results)
           /\ \A i \in 1..Len(result.search_results) :
                /\ result.cited_sources[i].url = result.search_results[i].link
                /\ result.cited_sources[i].title = result.search_results[i].title

\* Results with a hit that has a title, a hit that has none and a
\* placeholder, after a truncation.
C7_Witness ==
    /\ ReturnedResults
    /\ result.cited_sources[1].title = "google title 1"
    /\ result.cited_sources[3].title = PyNone
    /\ result.cited_sources[3].url = "https://google.example/3"
    /\ result.cited_sources[40].title = "No additional results"
    /\ Len(result.cited_sources) = 40

\* -------------------------------------------------------------------- C8

EngineOrder == <<"google", "bing", "duckduckgo", "yahoo">>

\* The i-th event of an invocation that passed validation, as C8 has it.
ClaimedEvent(i) == IF i % 2 = 1 THEN "search" ELSE "sleep"

\* C8: an invocation that passes validation calls the provider for google,
\* bing, duckduckgo and yahoo in this order, once each, and pauses once after
\* every call, failed or not, before the next call starts.
C8_SequentialWithPauses ==
    /\ Len(events) <= 8
    /\ \A i \in 1..Len(events) :
         /\ events[i].kind = ClaimedEvent(i)
         /\ i % 2 = 1 => events[i].params.engine = EngineOrder[(i + 1) \div 2]
         /\ i % 2 = 0 => events[i].seconds = RATE_LIMIT
    /\ Len(responses) = (Len(events) + 1) \div 2
    /\ pc = "search" => Len(events) = 2 * (engine_index - 1)
    /\ pc = "sleep" => Len(events) = 2 * engine_index - 1
    /\ pc = "combine" => Len(events) = 8
    /\ ReturnedResults => Len(events) = 8

\* All four calls and pauses happened although the first call failed.
C8_Witness ==
    /\ ReturnedResults
    /\ Len(events) = 8
    /\ responses[1].raised
    /\ events[2].kind = "sleep"
    /\ events[3].params.engine = "bing"

\* -------------------------------------------------------------------- C9

\* The engines' normalized results of the latest invocation, in engine order.
RECURSIVE Concatenated(_)
Concatenated(outcomes) ==
    IF outcomes = <<>> THEN <<>>
    ELSE serpapi_search(Head(outcomes)).value \o Concatenated(Tail(outcomes))

\* C9: with N the sum of the configured counts and C the concatenation of
\* the engines' normalized results, search_results is the first min(N, |C|)
\* entries of C followed by max(0, N - |C|) placeholders.
C9_PadOrTruncate ==
    ReturnedResults =>
         LET C == Concatenated(responses)
             N == GOOGLE_RESULTS_NUM + BING_RESULTS_NUM
                  + DUCKDUCKGO_RESULTS_NUM + YAHOO_RESULTS_NUM
             kept == IF Len(C) < N THEN Len(C) ELSE N
         IN result.search_results
              = SubSeq(C, 1, kept)
                \o [i \in 1..(N - kept) |->
                      [title |-> "No additional results", link |-> "", snippet |-> ""]]

\* Real results of two engines, in order, followed by placeholders.
C9_Witness ==
    /\ ReturnedResults
    /\ SumHits(responses) > 0
    /\ SumHits(responses) < 40
    /\ HitsOf(responses[1]) = 0
    /\ HitsOf(responses[2]) > 0
    /\ HitsOf(responses[4]) > 0
    /\ result.search_results[1].title = "bing title 1"
    /\ result.search_results[40].title = "No additional results"

\* ------------------------------------------------------------------- C10

\* C10: an invocation that returns an error result, and any invocation with
\* save_to_file false, leaves the report file and the output directory as
\* they were when it started.
C10_NoWriteWithoutSave ==
    (calls > 0 /\ (ReturnedError \/ ~save_to_file))
        => FileSystem = at_call.fs

\* Results were returned without saving, and the directory was not created.
C10_Witness ==
    /\ ReturnedResults
    /\ ~save_to_file
    /\ SumHits(responses) > 0
    /\ ~output_dir_exists

====
